---------------------------- MODULE Spec2Model ----------------------------
(***************************************************************************)
(* Batch-wise sample mixing of ranzen: RandomMixUp (ranzen and the older   *)
(* kit version) and RandomCutMix.  One behaviour is one call of a          *)
(* transform object on one batch: Init is the constructed object together  *)
(* with the caller's buffers, and one action per transform models the      *)
(* whole of __call__ / _transform, every random draw being a choice.       *)
(*                                                                         *)
(* Tensors are functions over 0-based index ranges.  Float tensors hold    *)
(* fixed-point integers: Unit(...) stands for 1.0, so that every product   *)
(* with a mixing weight is exact.  Mixing weights are numerators over a    *)
(* denominator (LambdaDen for sampled lambdas, height*width for CutMix).   *)
(*                                                                         *)
(* inf_generator (ranzen.torch.utils) is modelled as a generator object    *)
(* stepped by its consumer: gen holds the iterable, the iterator, the      *)
(* position of the generator in its body and the values it yielded.        *)
(***************************************************************************)
EXTENDS Integers, Sequences, FiniteSets, TLC

\* ------------------------------------------------------------------ bounds
MaxBatch == 3
\* sampled lambdas are l / LambdaDen, l \in 0..LambdaDen
LambdaDen == 2
\* the selection probability is p / PDen, p \in 0..PDen
PDen == 2
\* uniform draws of batched_randint are u / UDen, u \in 0..UDen-1
UDen == 12
\* number of classes of the targets
NumClasses == 2
\* number of distinct group labels
NumGroups == 2
\* batch size bound of the specifications that vary the whole configuration
SmallBatch == 2
\* CutMix: image side and channel bounds
MaxSide == 3
NumChannels == 2
GenMod == 7          \* the states of a random generator are 0 .. GenMod - 1
MaxCalls == 2        \* calls replayed by one run
MaxLen == 2          \* elements of the iterable handed to inf_generator
MaxYield == 5        \* values the consumer requests from one generator

\* ----------------------------------------------------------------- helpers
Range0(n) == 0 .. (n - 1)

Min(a, b) == IF a <= b THEN a ELSE b

Max(a, b) == IF a >= b THEN a ELSE b

RECURSIVE Pow2(_)
Pow2(k) == IF k <= 0 THEN 1 ELSE 2 * Pow2(k - 1)

RECURSIVE Log2(_)
Log2(x) == IF x <= 1 THEN 0 ELSE 1 + Log2(x \div 2)

RECURSIVE SumTo(_, _)
\* sum of f[0] .. f[n-1]
SumTo(f, n) == IF n <= 0 THEN 0 ELSE f[n - 1] + SumTo(f, n - 1)

\* torch.round of the rational num / den (den > 0): half to even
RoundHalfEven(num, den) ==
    LET q == num \div den
        r == num % den
    IN  IF 2 * r < den THEN q
        ELSE IF 2 * r > den THEN q + 1
        ELSE IF q % 2 = 0 THEN q ELSE q + 1

\* the value a NaN takes when cast to long on the CPU build (INT64_MIN; a
\* stand-in below every index and every sum the model forms)
NanAsLong == 0 - Pow2(30)

\* The outcomes of casting NaN to an integer: the cast is undefined, the CPU
\* build yields INT64_MIN, other builds yield 0.
NanToLong == {NanAsLong, 0}

\* float addition of a long and a small float: INT64_MIN absorbs the addend
FloatAdd(a, b) == IF a = NanAsLong THEN NanAsLong ELSE a + b


\* ------------------------------------------------------------------- state
VARIABLES
    self,             \* the transform object: kind and constructor arguments
    inputs,           \* the caller's inputs buffer
    targets,          \* the caller's targets buffer (kind "none" when absent)
    groups_or_edges,  \* the caller's group labels / connectivity matrix
    cross_group,      \* the cross_group argument of the call
    call_num_classes, \* the num_classes argument of the call (0 when not passed)
    given,            \* the three buffers as they were when the call was made
    pc,               \* "ready" before the call, "returned" or "raised" after
    ret,              \* the returned inputs and targets
    raised,           \* the exception that propagated ("none" when none)
    warned,           \* whether a RuntimeWarning was emitted
    loc,              \* the locals of _transform when it ended
    runs,             \* the replayed runs: generator states and what each call drew
    gen               \* the generator object inf_generator returned

vars == <<self, inputs, targets, groups_or_edges, cross_group,
          call_num_classes, given, pc, ret, raised, warned, loc, runs, gen>>

\* len(inputs)
BatchSize(x) == Cardinality(DOMAIN x)

\* 1.0 of the float tensors of a call: divisible by every weight denominator
\* the call multiplies by
Unit(kind, height, width) ==
    IF kind = "cutmix"
    THEN NumClasses * (height * width) * (height * width)
    ELSE NumClasses * LambdaDen

\* the batches handed to RandomMixUp: one feature per sample, sample i holding
\* 2^(LambdaDen * i), so that every sample is distinct and positive
MixUpBatch(n) == [i \in Range0(n) |-> Unit("mixup", 1, 1) * Pow2(LambdaDen * i)]

\* the image batches handed to RandomCutMix: shape [n, NumChannels, h, w],
\* every pixel holding a code of its own
Pixel(i, ch, r, c, h, w) == ((i * NumChannels + ch) * h + r) * w + c + 1

ImageBatch(n, h, w) ==
    [i \in Range0(n) |-> [ch \in Range0(NumChannels) |->
        [r \in Range0(h) |-> [c \in Range0(w) |-> Pixel(i, ch, r, c, h, w)]]]]

Height(x) == Cardinality(DOMAIN x[0][0])

Width(x) == Cardinality(DOMAIN x[0][0][0])

NoTargets == [kind |-> "none", val |-> <<>>]

\* F.one_hot(...).float() of one label
OneHotRow(label, num_classes, unit) ==
    [c \in Range0(num_classes) |-> IF c = label THEN unit ELSE 0]

\* F.one_hot(targets, num_classes).float()
OneHot(labels, num_classes, unit) ==
    [i \in DOMAIN labels |-> OneHotRow(labels[i], num_classes, unit)]

UniformRow(unit) == [c \in Range0(NumClasses) |-> unit \div NumClasses]

\* the targets a caller may pass with a batch of n samples
LabelChoices(n) ==
    { [i \in Range0(n) |-> i % NumClasses], [i \in Range0(n) |-> 0] }

MatrixChoices(n, unit, soft) ==
    { [i \in Range0(n) |-> OneHotRow(i % NumClasses, NumClasses, unit)] }
    \cup (IF soft
          THEN { [i \in Range0(n) |->
                    IF i % 2 = 0 THEN UniformRow(unit)
                    ELSE OneHotRow(i % NumClasses, NumClasses, unit)] }
          ELSE {})

TargetChoices(n, unit, soft) ==
    {NoTargets}
    \cup { [kind |-> "labels", val |-> v] : v \in LabelChoices(n) }
    \cup { [kind |-> "matrix", val |-> v] : v \in MatrixChoices(n, unit, soft) }

NoGroups == [kind |-> "none", val |-> <<>>]

RowKinds == {"none", "self", "others", "all", "next"}

EdgeRow(kind, i, n) ==
    [j \in Range0(n) |->
        CASE kind = "none" -> FALSE
          [] kind = "self" -> j = i
          [] kind = "others" -> j # i
          [] kind = "all" -> TRUE
          [] OTHER -> j = (i + 1) % n]

\* the boolean n x n connectivity matrices a caller may pass
EdgeMatrices(n) ==
    { [i \in Range0(n) |-> EdgeRow(k[i], i, n)] : k \in [Range0(n) -> RowKinds] }

GroupChoices(n) ==
    {NoGroups}
    \cup { [kind |-> "groups", val |-> g] : g \in [Range0(n) -> Range0(NumGroups)] }
    \cup { [kind |-> "edges", val |-> e] : e \in EdgeMatrices(n) }

\* the values lambda_sampler.sample can return, as numerators over LambdaDen:
\* td.Beta and td.Uniform(0, 1) anywhere in [0, 1], td.Bernoulli(probs=0.5)
\* 0 or 1, td.Bernoulli(probs=1.0) always 1
Support(lambda_sampler) ==
    CASE lambda_sampler = "Beta" -> 0 .. LambdaDen
      [] lambda_sampler = "Bernoulli" -> {0, LambdaDen}
      [] OTHER -> {LambdaDen}

NoLocals ==
    [selected |-> <<>>, indices |-> <<>>, pair_indices |-> <<>>, lambdas |-> <<>>,
     target_lambdas |-> <<>>, draws |-> 0, connections |-> <<>>, box |-> <<>>,
     masks |-> <<>>]

NoReturn == [inputs |-> <<>>, targets |-> NoTargets]

NoRuns == <<>>

NoGen == <<>>

\* -------------------------------------------------------------------- Init
\* the state after construction of the transform and of the caller's batch
InitCall(obj, x, y, ge, cg, nc) ==
    /\ self = obj
    /\ inputs = x
    /\ targets = y
    /\ groups_or_edges = ge
    /\ cross_group = cg
    /\ call_num_classes = nc
    /\ given = [inputs |-> x, targets |-> y, groups_or_edges |-> ge]
    /\ pc = "ready"
    /\ ret = NoReturn
    /\ raised = "none"
    /\ warned = FALSE
    /\ loc = NoLocals
    /\ gen = NoGen

\* RandomMixUp.__init__; D gives the sets the arguments are drawn from
InitMixUp(D) ==
    \E n \in D.ns, p \in D.ps, mode \in D.modes, ls \in D.samplers,
       nc \in D.ncs, ip \in D.inplaces :
      \E y \in { t \in TargetChoices(n, Unit("mixup", 1, 1), mode = "linear") :
                   t.kind \in D.tkinds },
         ge \in { g \in GroupChoices(n) : g.kind \in D.gkinds } :
        \E cg \in (IF ge.kind = "groups" THEN D.cross ELSE {TRUE}),
           call_nc \in D.callncs :
          InitCall([kind |-> "mixup", p |-> p, mode |-> mode, num_classes |-> nc,
                    featurewise |-> (ls # "Beta"), inplace |-> ip,
                    lambda_sampler |-> ls],
                   MixUpBatch(n), y, ge, cg, call_nc)
          /\ runs = NoRuns

\* kit's RandomMixUp.__init__ (no inplace, no generator, no groups; its
\* __call__ takes no num_classes)
InitKit(D) ==
    \E n \in D.ns, p \in D.ps, mode \in D.modes, ls \in D.samplers, nc \in D.ncs :
      \E y \in { t \in TargetChoices(n, Unit("kit", 1, 1), FALSE) :
                   t.kind \in D.tkinds \ {"matrix"} } :
        InitCall([kind |-> "kit", p |-> p, mode |-> mode, num_classes |-> nc,
                  featurewise |-> FALSE, inplace |-> FALSE, lambda_sampler |-> ls],
                 MixUpBatch(n), y, NoGroups, TRUE, 0)
        /\ runs = NoRuns

\* RandomCutMix.__init__: the lambda sampler is always a Beta distribution
InitCutMix(D) ==
    \E n \in D.ns, p \in D.ps, nc \in D.ncs, ip \in D.inplaces,
       h \in D.sides, w \in D.sides :
      \E y \in { t \in TargetChoices(n, Unit("cutmix", h, w), TRUE) :
                   t.kind \in D.tkinds } :
        InitCall([kind |-> "cutmix", p |-> p, mode |-> "linear", num_classes |-> nc,
                  featurewise |-> FALSE, inplace |-> ip, lambda_sampler |-> "Beta"],
                 ImageBatch(n, h, w), y, NoGroups, TRUE, 0)
        /\ runs = NoRuns

\* ---------------------------------------------------------------- selection
\* the gate reduced to the singular-batch test alone
NothingToDoSingular(batch_size, p) == batch_size = 1

\* the test of line 294 (ranzen) / line 90 (cutmix): a singular batch or p = 0
NothingToDo(batch_size, p) == batch_size = 1 \/ p = 0

\* selected = rand(batch_size) < p with rand in [0, 1): any mask when
\* 0 < p < 1, no sample when p = 0; every sample when p >= 1
SelectionMasks(batch_size, p) ==
    IF p = 0 THEN {{}}
    ELSE IF p < PDen THEN SUBSET Range0(batch_size)
    ELSE {Range0(batch_size)}

\* selected.nonzero().flatten(): the selected indices in ascending order
Nonzero(mask) ==
    [k \in Range0(Cardinality(mask)) |->
        CHOOSE i \in mask : Cardinality({j \in mask : j < i}) = k]

\* x[idx] (advanced indexing: a copy of the rows idx names)
Gather(x, idx) == [k \in DOMAIN idx |-> x[idx[k]]]

\* x[:len(idx)] = rows: the rows written to the leading positions
ScatterLeading(x, idx, rows) ==
    [i \in DOMAIN x |-> IF i \in DOMAIN rows THEN rows[i] ELSE x[i]]

\* x[idx] = rows: row idx[k] of x becomes rows[k]; when an index repeats the
\* last write wins
Scatter(x, idx, rows) ==
    [i \in DOMAIN x |->
        IF \E k \in DOMAIN idx : idx[k] = i
        THEN rows[CHOOSE k \in DOMAIN idx :
                    /\ idx[k] = i
                    /\ \A k2 \in DOMAIN idx : idx[k2] = i => k2 <= k]
        ELSE x[i]]

\* ------------------------------------------------------------------- mixing
LinearMix(a, b, num, den) == (num * a + (den - num) * b) \div den

\* a^lambda * b^(1 - lambda) with lambda = num / den, on fixed-point values
\* that are 0 or unit * 2^(den * k); torch.pow(0, 0) = 1
GeometricMix(a, b, num, den, unit) ==
    IF num = den THEN a
    ELSE IF num = 0 THEN b
    ELSE IF a = 0 \/ b = 0 THEN 0
    ELSE IF a = b THEN a
    ELSE unit * Pow2((num * Log2(a \div unit) + (den - num) * Log2(b \div unit))
                     \div den)

\* RandomMixUp._mix on one element
Mix(mode, a, b, num, den, unit) ==
    IF mode = "linear" THEN LinearMix(a, b, num, den)
    ELSE GeometricMix(a, b, num, den, unit)

\* _mix on the rows of a target matrix, one weight per row
MixRows(mode, ra, rb, lam, den, unit) ==
    [k \in DOMAIN ra |->
        [c \in DOMAIN ra[k] |-> Mix(mode, ra[k][c], rb[k][c], lam[k], den, unit)]]

\* _mix on the rows of the inputs (one feature per sample)
MixFeatures(mode, ra, rb, lam, den, unit) ==
    [k \in DOMAIN ra |-> Mix(mode, ra[k], rb[k], lam[k], den, unit)]

\* ------------------------------------------------------------------ pairing
\* the pairing with the offsets counted from 0 instead of 1
PairOffsetFromZero(indices, offset, batch_size) ==
    [k \in DOMAIN indices |-> (indices[k] + offset[k] - 1) % batch_size]

\* pair_indices = (indices + offset) % batch_size
PairOffset(indices, offset, batch_size) ==
    [k \in DOMAIN indices |-> (indices[k] + offset[k]) % batch_size]

\* connections.fill_diagonal_(False): entry [k][k] of every row k
FillDiagonal(m) ==
    [k \in DOMAIN m |-> [j \in DOMAIN m[k] |-> IF j = k THEN FALSE ELSE m[k][j]]]

\* the [num_selected, batch_size] matrix of permitted partners
Connections(ge, cg, indices, batch_size) ==
    IF ge.kind = "groups"
    THEN LET raw == [k \in DOMAIN indices |-> [j \in Range0(batch_size) |->
                        IF cg THEN ge.val[indices[k]] # ge.val[j]
                        ELSE ge.val[indices[k]] = ge.val[j]]]
         IN  IF cg THEN raw ELSE FillDiagonal(raw)
    ELSE FillDiagonal(Gather(ge.val, indices))

\* connections.count_nonzero(dim=1)
Degrees(connections) ==
    [k \in DOMAIN connections |->
        Cardinality({j \in DOMAIN connections[k] : connections[k][j]})]

\* degrees.nonzero().squeeze(-1): the rows that have a partner
IsConnected(degrees) == Nonzero({k \in DOMAIN degrees : degrees[k] # 0})

\* one draw of batched_randint for a row of degree d >= 1 from the uniform
\* draw u / UDen: u' = u * (1 + 1/d) - 1/(2d), clamped to [0, 1], then
\* round(u' * (d - 1))
BatchedRandintOf(u, d) ==
    LET den == 2 * d * UDen
        num == Max(0, Min(den, 2 * u * (d + 1) - UDen))
    IN  RoundHalfEven(num * (d - 1), den)

\* the values batched_randint can return for one row of degree d; with d = 0
\* the reciprocal is infinite and the draw is NaN, cast to long
BatchedRandint(d) ==
    IF d = 0 THEN NanToLong
    ELSE { BatchedRandintOf(u, d) : u \in Range0(UDen) }

\* the relative indices left row-wise
RowMajorNoOffset(rel, degrees) == rel

\* rel_pair_indices[1:] += degrees.cumsum(dim=0)[:-1]
RowMajor(rel, degrees) == [k \in DOMAIN rel |-> rel[k] + SumTo(degrees, k)]

\* the rows, not the columns, of the true entries in row-major order
AbsPosIndsRows(connections) ==
    LET degrees == Degrees(connections)
        n == Cardinality(DOMAIN connections)
    IN  [q \in Range0(SumTo(degrees, n)) |->
            CHOOSE r \in Range0(n) :
              SumTo(degrees, r) <= q /\ q < SumTo(degrees, r + 1)]

\* _, abs_pos_inds = connections.nonzero(as_tuple=True): the columns of the
\* true entries in row-major order
AbsPosInds(connections) ==
    LET degrees == Degrees(connections)
        n == Cardinality(DOMAIN connections)
    IN  [q \in Range0(SumTo(degrees, n)) |->
            LET k == CHOOSE r \in Range0(n) :
                        SumTo(degrees, r) <= q /\ q < SumTo(degrees, r + 1)
            IN  Nonzero({j \in DOMAIN connections[k] : connections[k][j]})
                    [q - SumTo(degrees, k)]]

\* pair_indices = abs_pos_inds[rel_pair_indices]
PairFromRel(rel, connections) ==
    Gather(AbsPosInds(connections), RowMajor(rel, Degrees(connections)))

\* ----------------------------------------------------------------- ending
\* the caller's buffer with every row written through to it
CallerBufferShared(inplace, buffer, written) == written

\* "if not self.inplace: x = x.clone()" before the rows of x are assigned: the
\* caller's buffer takes the writes only when the transform works in place
CallerBuffer(inplace, buffer, written) == IF inplace THEN written ELSE buffer

\* the caller's groups_or_edges after the call: groups[indices] and
\* groups_or_edges[indices] index with a tensor, which copies, so the
\* comparison and fill_diagonal_ write to the copy
CallerEdges(ge, selected) == ge

Finish(state, callerInputs, callerTargets, retv, err, warn, locals) ==
    /\ pc' = state
    /\ inputs' = callerInputs
    /\ targets' = callerTargets
    /\ groups_or_edges' = CallerEdges(groups_or_edges, locals.selected)
    /\ ret' = retv
    /\ raised' = err
    /\ warned' = warn
    /\ loc' = locals
    /\ UNCHANGED <<self, cross_group, call_num_classes, given, runs, gen>>

\* return inputs / InputsTargetsPair(inputs, targets) before anything is drawn
\* or after every selected row was dropped
ReturnGiven(warn, draws) ==
    Finish("returned", inputs, targets, [inputs |-> inputs, targets |-> targets],
           "none", warn, [NoLocals EXCEPT !.draws = draws])

\* ------------------------------------------------------ RandomMixUp (ranzen)
\* the num_classes that _transform receives: __call__ (lines 491-496) passes
\* inputs, targets, groups_or_edges and cross_group on and leaves num_classes
\* at its default, None
TransformNumClasses(passed) == 0

\* lines 391-436 of _transform: sample the lambdas, mix the inputs, then
\* encode and mix the targets
MixUpApply(selected, indices, pair_indices, connections, warn, draws) ==
    \E lambdas \in [DOMAIN indices -> Support(self.lambda_sampler)] :
      LET unit == Unit("mixup", 1, 1)
          mixed == MixFeatures(self.mode, Gather(inputs, indices),
                               Gather(inputs, pair_indices), lambdas, LambdaDen, unit)
          new_inputs == Scatter(inputs, indices, mixed)
          caller_inputs == CallerBuffer(self.inplace, inputs, new_inputs)
          \* the mean over the single feature of a sample is the lambda itself
          target_lambdas == lambdas
          locals == [NoLocals EXCEPT !.selected = selected,
                                     !.indices = indices,
                                     !.pair_indices = pair_indices,
                                     !.lambdas = lambdas,
                                     !.connections = connections,
                                     !.draws = draws + 1]
          nc == TransformNumClasses(call_num_classes)
          classes == IF nc = 0 THEN self.num_classes ELSE nc
      IN  IF targets.kind = "none"
          THEN Finish("returned", caller_inputs, targets,
                      [inputs |-> new_inputs, targets |-> NoTargets],
                      "none", warn, locals)
          ELSE IF targets.kind = "labels" /\ nc = 0 /\ self.num_classes = 0
          THEN Finish("raised", caller_inputs, targets, NoReturn,
                      "RuntimeError", warn, locals)
          ELSE IF targets.kind = "labels" /\ nc # 0 /\ nc < 1
          THEN Finish("raised", caller_inputs, targets, NoReturn,
                      "ValueError", warn, locals)
          ELSE LET encoded == IF targets.kind = "labels"
                              THEN OneHot(targets.val, classes, unit)
                              ELSE targets.val
                   rows == MixRows(self.mode, Gather(encoded, indices),
                                   Gather(encoded, pair_indices), target_lambdas,
                                   LambdaDen, unit)
                   new_targets == [kind |-> "matrix",
                                   val |-> Scatter(encoded, indices, rows)]
                   caller_targets == IF targets.kind = "matrix"
                                     THEN CallerBuffer(self.inplace, targets,
                                                       new_targets)
                                     ELSE targets
               IN  Finish("returned", caller_inputs, caller_targets,
                          [inputs |-> new_inputs, targets |-> new_targets],
                          "none", warn,
                          [locals EXCEPT !.target_lambdas = target_lambdas])

\* lines 323-389 of _transform: pairing under groups or a connectivity matrix
MixUpConstrained(indices, batch_size, draws) ==
    LET connections == Connections(groups_or_edges, cross_group, indices, batch_size)
        degrees == Degrees(connections)
        is_connected == IsConnected(degrees)
        num_selected == Cardinality(DOMAIN is_connected)
        warn == num_selected < Cardinality(DOMAIN degrees)
    IN  IF num_selected = 0
        THEN Finish("returned", inputs, targets,
                    [inputs |-> inputs, targets |-> targets], "none", warn,
                    [NoLocals EXCEPT !.selected = indices, !.draws = draws])
        ELSE LET kept == Gather(indices, is_connected)
                 kept_degrees == Gather(degrees, is_connected)
                 kept_connections == Gather(connections, is_connected)
             IN  \E rel \in { r \in [DOMAIN kept ->
                                      UNION { BatchedRandint(kept_degrees[k]) :
                                              k \in DOMAIN kept }] :
                               \A k \in DOMAIN kept :
                                 r[k] \in BatchedRandint(kept_degrees[k]) } :
                   MixUpApply(indices, kept, PairFromRel(rel, kept_connections),
                              kept_connections, warn, draws + 1)

\* RandomMixUp.__call__ -> _transform
RandomMixUpCall ==
    /\ pc = "ready"
    /\ self.kind = "mixup"
    /\ LET batch_size == BatchSize(inputs)
       IN  IF NothingToDo(batch_size, self.p)
           THEN ReturnGiven(FALSE, 0)
           ELSE \E mask \in SelectionMasks(batch_size, self.p) :
                  LET indices == Nonzero(mask)
                      draws == IF self.p < PDen THEN 1 ELSE 0
                  IN  IF groups_or_edges.kind = "none"
                      THEN \E offset \in [DOMAIN indices -> 1 .. (batch_size - 1)] :
                             MixUpApply(indices, indices,
                                        PairOffset(indices, offset, batch_size),
                                        <<>>, FALSE, draws + 1)
                      ELSE MixUpConstrained(indices, batch_size, draws)

\* --------------------------------------------------------- RandomMixUp (kit)
\* kit's RandomMixUp.transform
KitMixUpCall ==
    /\ pc = "ready"
    /\ self.kind = "kit"
    /\ LET batch_size == BatchSize(inputs)
           unit == Unit("kit", 1, 1)
       IN  IF self.p = 0
           THEN ReturnGiven(FALSE, 0)
           ELSE \E mask \in SelectionMasks(batch_size, self.p) :
                  LET indices == Nonzero(mask)
                      draws == IF self.p < PDen THEN 1 ELSE 0
                  IN  IF batch_size <= 1
                      \* torch.randint(low=1, high=1, ...) rejects the empty range
                      THEN Finish("raised", inputs, targets, NoReturn, "RuntimeError",
                                  FALSE, [NoLocals EXCEPT !.selected = indices,
                                                          !.indices = indices,
                                                          !.draws = draws])
                      ELSE \E offset \in [DOMAIN indices -> 1 .. (batch_size - 1)],
                              lambdas \in [DOMAIN indices ->
                                             Support(self.lambda_sampler)] :
                        LET pair_indices == PairOffset(indices, offset, batch_size)
                            mixed == MixFeatures(self.mode, Gather(inputs, indices),
                                                 Gather(inputs, pair_indices),
                                                 lambdas, LambdaDen, unit)
                            new_inputs == Scatter(inputs, indices, mixed)
                            locals == [NoLocals EXCEPT !.selected = indices,
                                                       !.indices = indices,
                                                       !.pair_indices = pair_indices,
                                                       !.lambdas = lambdas,
                                                       !.draws = draws + 2]
                        IN  IF targets.kind = "none"
                            THEN Finish("returned", inputs, targets,
                                        [inputs |-> new_inputs, targets |-> NoTargets],
                                        "none", FALSE, locals)
                            ELSE IF self.num_classes = 0
                            THEN Finish("raised", inputs, targets, NoReturn,
                                        "ValueError", FALSE, locals)
                            ELSE LET encoded == OneHot(targets.val, self.num_classes,
                                                       unit)
                                     rows == MixRows(self.mode,
                                                     Gather(encoded, indices),
                                                     Gather(encoded, pair_indices),
                                                     lambdas, LambdaDen, unit)
                                 IN  Finish("returned", inputs, targets,
                                            [inputs |-> new_inputs,
                                             targets |->
                                               [kind |-> "matrix",
                                                val |-> Scatter(encoded, indices,
                                                                rows)]],
                                            "none", FALSE,
                                            [locals EXCEPT
                                               !.target_lambdas = lambdas])

\* -------------------------------------------------------------- RandomCutMix
\* pair_indices = indices.roll(1, 0)
Roll(indices) ==
    LET n == Cardinality(DOMAIN indices)
    IN  [k \in DOMAIN indices |-> indices[(k + n - 1) % n]]

\* torch.round(cutmix_rate * side) with cutmix_rate = sqrt(1 - lambda) and
\* lambda = num / LambdaDen: the number of h with h + 1/2 below the product
\* (a tie at h + 1/2 rounds to the even neighbour)
Extent(num, side) ==
    LET a == 4 * side * side * (LambdaDen - num)
    IN  Cardinality({ h \in Range0(side) :
            \/ a > (2 * h + 1) * (2 * h + 1) * LambdaDen
            \/ a = (2 * h + 1) * (2 * h + 1) * LambdaDen /\ h % 2 = 1 })

\* masks_h / masks_w: (end >= range) & (range >= start)
RangeMask(start, end, side) ==
    [k \in DOMAIN start |-> [r \in Range0(side) |-> end[k] >= r /\ r >= start[k]]]

\* masks_h.unsqueeze(1) * masks_w.unsqueeze(-1): shape [n, width, height], entry
\* [k][a][b] = masks_w[k][a] and masks_h[k][b]
Masks(masks_h, masks_w) ==
    [k \in DOMAIN masks_h |-> [a \in DOMAIN masks_w[k] |-> [b \in DOMAIN masks_h[k] |->
        masks_w[k][a] /\ masks_h[k][b]]]]

\* ~masks * inputs[indices] + masks * inputs[pair_indices] for height = width:
\* the mask entry at the pixel's own position decides, for every channel
Replace(own, partner, masks) ==
    [k \in DOMAIN own |-> [ch \in DOMAIN own[k] |-> [r \in DOMAIN own[k][ch] |->
        [c \in DOMAIN own[k][ch][r] |->
            IF masks[k][r][c] THEN partner[k][ch][r][c] ELSE own[k][ch][r][c]]]]]

\* rows * weights / den, one weight per row
ScaleRows(rows, weights, den) ==
    [k \in DOMAIN rows |-> [c \in DOMAIN rows[k] |-> (rows[k][c] * weights[k]) \div den]]

AddRows(ra, rb) ==
    [k \in DOMAIN ra |-> [c \in DOMAIN ra[k] |-> ra[k][c] + rb[k][c]]]

\* lines 152-159: targets[indices] *= target_lambdas, then
\* targets[indices] += targets[pair_indices] * (1.0 - target_lambdas), the
\* second statement reading the rows the first one wrote
CutMixTargets(encoded, indices, pair_indices, target_lambdas, area) ==
    LET scaled == Scatter(encoded, indices,
                          ScaleRows(Gather(encoded, indices), target_lambdas, area))
        complement == [k \in DOMAIN target_lambdas |-> area - target_lambdas[k]]
    IN  Scatter(scaled, indices,
                AddRows(Gather(scaled, indices),
                        ScaleRows(Gather(scaled, pair_indices), complement, area)))

\* lines 107-161 of _transform, after the selection
CutMixApply(indices, draws) ==
    LET height == Height(inputs)
        width == Width(inputs)
        unit == Unit("cutmix", height, width)
        pair_indices == Roll(indices)
    IN  \E lambdas \in [DOMAIN indices -> Support(self.lambda_sampler)] :
          LET extents_h == [k \in DOMAIN indices |-> Extent(lambdas[k], height)]
              extents_w == [k \in DOMAIN indices |-> Extent(lambdas[k], width)]
          IN  \E start_inds_h \in
                   { s \in [DOMAIN indices -> NanToLong \cup Range0(height)] :
                       \A k \in DOMAIN indices :
                         s[k] \in BatchedRandint(height - extents_h[k]) },
                 start_inds_w \in
                   { s \in [DOMAIN indices -> NanToLong \cup Range0(width)] :
                       \A k \in DOMAIN indices :
                         s[k] \in BatchedRandint(width - extents_w[k]) } :
                LET end_inds_h == [k \in DOMAIN indices |->
                                     FloatAdd(start_inds_h[k], extents_h[k])]
                    end_inds_w == [k \in DOMAIN indices |->
                                     FloatAdd(start_inds_w[k], extents_w[k])]
                    masks == Masks(RangeMask(start_inds_h, end_inds_h, height),
                                   RangeMask(start_inds_w, end_inds_w, width))
                    box == [extents_h |-> extents_h, extents_w |-> extents_w,
                            start_inds_h |-> start_inds_h,
                            start_inds_w |-> start_inds_w,
                            end_inds_h |-> end_inds_h, end_inds_w |-> end_inds_w]
                    locals == [NoLocals EXCEPT !.selected = indices,
                                               !.indices = indices,
                                               !.pair_indices = pair_indices,
                                               !.lambdas = lambdas,
                                               !.box = box,
                                               !.masks = masks,
                                               !.draws = draws + 3]
                IN  IF height # width
                    \* [n, C, W, H] does not broadcast against [n, C, H, W]
                    THEN Finish("raised", inputs, targets, NoReturn, "RuntimeError",
                                FALSE, locals)
                    ELSE
                    LET new_inputs == Scatter(inputs, indices,
                                              Replace(Gather(inputs, indices),
                                                      Gather(inputs, pair_indices),
                                                      masks))
                        caller_inputs == CallerBuffer(self.inplace, inputs,
                                                      new_inputs)
                    IN  IF targets.kind = "none"
                        THEN Finish("returned", caller_inputs, targets,
                                    [inputs |-> new_inputs, targets |-> NoTargets],
                                    "none", FALSE, locals)
                        ELSE IF targets.kind = "labels" /\ self.num_classes = 0
                        THEN Finish("raised", caller_inputs, targets, NoReturn,
                                    "RuntimeError", FALSE, locals)
                        ELSE
                        LET encoded == IF targets.kind = "labels"
                                       THEN OneHot(targets.val, self.num_classes, unit)
                                       ELSE targets.val
                            area == width * height
                            target_lambdas ==
                              [k \in DOMAIN indices |->
                                 area - (end_inds_w[k] - start_inds_w[k])
                                          * (end_inds_h[k] - start_inds_h[k])]
                            new_targets ==
                              [kind |-> "matrix",
                               val |-> CutMixTargets(encoded, indices, pair_indices,
                                                     target_lambdas, area)]
                            caller_targets ==
                              IF targets.kind = "matrix"
                              THEN CallerBuffer(self.inplace, targets, new_targets)
                              ELSE targets
                        IN  Finish("returned", caller_inputs, caller_targets,
                                   [inputs |-> new_inputs, targets |-> new_targets],
                                   "none", FALSE,
                                   [locals EXCEPT !.target_lambdas = target_lambdas])

\* RandomCutMix.__call__ -> _transform
RandomCutMixCall ==
    /\ pc = "ready"
    /\ self.kind = "cutmix"
    /\ LET batch_size == BatchSize(inputs)
       IN  IF NothingToDo(batch_size, self.p)
           THEN ReturnGiven(FALSE, 0)
           ELSE \E mask \in SelectionMasks(batch_size, self.p) :
                  CutMixApply(Nonzero(mask), IF self.p < PDen THEN 1 ELSE 0)

\* ------------------------------------------------------ seeded generators
\* A torch.Generator is a state and a step; what a draw returns is a function
\* of the state it is made in.
NextState(s) == (3 * s + 1) % GenMod

RECURSIVE Advance(_, _)
\* the state after n draws
Advance(s, n) == IF n <= 0 THEN s ELSE Advance(NextState(s), n - 1)

\* the raw values of n successive draws from state s
Draws(s, n) == [k \in Range0(n) |-> Advance(s, k + 1)]

\* the gate drawing from the process-wide default generator
GateDrawsDefault(generator, default, batch_size) == Draws(default, batch_size)

\* torch.rand(batch_size, generator=self.generator)
GateDraws(generator, default, batch_size) == Draws(generator, batch_size)

\* lines 298-309: the indices selected by a generator in a given state
SeededSelection(generator, default, batch_size, p) ==
    IF p < PDen
    THEN Nonzero({ i \in Range0(batch_size) :
                     GateDraws(generator, default, batch_size)[i] % PDen < p })
    ELSE Nonzero(Range0(batch_size))

\* lambda_sampler.sample(...): torch.distributions takes no generator and draws
\* from the process-wide default one
SeededLambdas(default, num_selected) ==
    [k \in Range0(num_selected) |-> Draws(default, num_selected)[k] % (LambdaDen + 1)]

\* one call of a run: the selection, the pairing and the lambdas drawn, and
\* the two generators afterwards
SeededTransform(generator, default) ==
    LET batch_size == BatchSize(inputs)
        selected == SeededSelection(generator, default, batch_size, self.p)
        after_gate == IF self.p < PDen THEN Advance(generator, batch_size)
                      ELSE generator
        num == Cardinality(DOMAIN selected)
        connections == Connections(groups_or_edges, cross_group, selected, batch_size)
        degrees == Degrees(connections)
        is_connected == IsConnected(degrees)
        kept == IF groups_or_edges.kind = "none" THEN selected
                ELSE Gather(selected, is_connected)
        num_kept == Cardinality(DOMAIN kept)
        raw == Draws(after_gate, num_kept)
        pair_indices ==
          IF self.kind = "cutmix" THEN Roll(selected)
          ELSE IF groups_or_edges.kind = "none"
          THEN PairOffset(selected, [k \in DOMAIN selected |->
                                        1 + (raw[k] % (batch_size - 1))], batch_size)
          ELSE IF num_kept = 0 THEN <<>>
          ELSE PairFromRel([k \in DOMAIN kept |->
                              BatchedRandintOf(raw[k] % UDen,
                                               Gather(degrees, is_connected)[k])],
                           Gather(connections, is_connected))
        \* RandomCutMix draws the two box starts of every selected sample
        pairing_draws == IF self.kind = "cutmix" THEN 2 * num ELSE num_kept
        lambdas == IF self.kind = "mixup" /\ num_kept = 0 /\ groups_or_edges.kind # "none"
                   THEN <<>> ELSE SeededLambdas(default, num_kept)
    IN  [generator |-> Advance(after_gate, pairing_draws),
         default |-> Advance(default, Cardinality(DOMAIN lambdas)),
         call |-> [selected |-> kept, pair_indices |-> pair_indices,
                   lambdas |-> lambdas]]

\* run r replays one more call on the batch; the second run starts when the
\* first has ended
SeededCall(r) ==
    /\ pc = "ready"
    /\ runs # NoRuns
    /\ Len(runs[r].history) < MaxCalls
    /\ r = 2 => Len(runs[1].history) = MaxCalls
    /\ LET out == SeededTransform(runs[r].generator, runs[r].default)
       IN  runs' = [runs EXCEPT ![r] = [generator |-> out.generator,
                                        default |-> out.default,
                                        default_seed |-> runs[r].default_seed,
                                        history |-> Append(runs[r].history, out.call)]]
    /\ UNCHANGED <<self, inputs, targets, groups_or_edges, cross_group,
                   call_num_classes, given, pc, ret, raised, warned, loc, gen>>

\* two runs of one transform on one batch, their generators seeded alike, the
\* default generator in any state
InitSeed ==
    \E n \in 2 .. MaxBatch, p \in 1 .. PDen, kind \in {"mixup", "cutmix"},
       cg \in BOOLEAN, seed \in Range0(GenMod), d1 \in Range0(GenMod),
       d2 \in Range0(GenMod) :
      \E ge \in (IF kind = "mixup" /\ ~cg
                 THEN {NoGroups, [kind |-> "groups",
                                  val |-> [i \in Range0(n) |-> i % NumGroups]]}
                 ELSE IF kind = "mixup"
                 THEN {[kind |-> "groups",
                        val |-> [i \in Range0(n) |-> i % NumGroups]]}
                 ELSE {NoGroups}) :
        /\ kind = "cutmix" => cg
        /\ InitCall([kind |-> kind, p |-> p, mode |-> "linear", num_classes |-> 0,
                     featurewise |-> FALSE, inplace |-> FALSE,
                     lambda_sampler |-> "Beta"],
                    IF kind = "mixup" THEN MixUpBatch(n) ELSE ImageBatch(n, 2, 2),
                    NoTargets, ge, cg, 0)
        /\ runs = <<[generator |-> seed, default |-> d1, default_seed |-> d1,
                     history |-> <<>>],
                    [generator |-> seed, default |-> d2, default_seed |-> d2,
                     history |-> <<>>]>>

NextSeed == \E r \in {1, 2} : SeededCall(r)

SpecSeed == InitSeed /\ [][NextSeed]_vars

\* ------------------------------------------------------------ inf_generator
\* the values an iterable can hold; "None" is Python's None
Values == {"None", "a", "b"}

RECURSIVE SeqsUpTo(_)
\* the sequences over Values of length at most n
SeqsUpTo(n) ==
    IF n = 0 THEN {<<>>}
    ELSE LET shorter == SeqsUpTo(n - 1)
         IN  shorter \cup { Append(q, v) : q \in shorter, v \in Values }

\* the iterables a caller can pass: a container that hands out a fresh
\* iterator on every iter() (a list, a DataLoader), or a one-shot iterator
\* (a generator, iter(list)), for which iter() returns the object itself
Iterables ==
    { [kind |-> k, items |-> q] : k \in {"container", "iterator"},
                                 q \in SeqsUpTo(MaxLen) }

\* iter(iterable): the position of the iterator it returns; current is the
\* position of the iterable itself when it is a one-shot iterator
Iter(iterable, current) ==
    IF iterable.kind = "container" THEN 0 ELSE current

\* whether next(iterator) raises StopIteration
Exhausted(iterable, iterator) == iterator >= Len(iterable.items)

\* next(iterator, None): the next element, None when there is none
NextOrNone(iterable, iterator) ==
    IF Exhausted(iterable, iterator) THEN "None"
    ELSE iterable.items[iterator + 1]

\* the position of an iterator after next() was called on it
Advanced(iterable, iterator) ==
    IF Exhausted(iterable, iterator) THEN iterator ELSE iterator + 1

\* the consumer calls next() on the generator: a generator that was not
\* started runs from line 39, a suspended one resumes after its yield, which
\* leads to line 46 in both cases
Request ==
    /\ gen # NoGen
    /\ gen.pc \in {"created", "yielded"}
    /\ Len(gen.out) < MaxYield
    /\ gen' = [gen EXCEPT !.pc = IF gen.pc = "created" THEN "start" ELSE "loop"]
    /\ UNCHANGED <<self, inputs, targets, groups_or_edges, cross_group,
                   call_num_classes, given, pc, ret, raised, warned, loc, runs>>

\* lines 39-45: take one element; yield it unless it is None, else raise
Begin ==
    /\ gen # NoGen
    /\ gen.pc = "start"
    /\ LET iterator == Iter(gen.iterable, gen.iterator)
           first_value == NextOrNone(gen.iterable, iterator)
       IN  gen' = IF first_value # "None"
                  THEN [gen EXCEPT !.iterator = Advanced(gen.iterable, iterator),
                                   !.first_value = first_value,
                                   !.out = Append(gen.out, first_value),
                                   !.pc = "yielded"]
                  ELSE [gen EXCEPT !.iterator = Advanced(gen.iterable, iterator),
                                   !.first_value = first_value,
                                   !.raised = "RuntimeError",
                                   !.pc = "raised"]
    /\ UNCHANGED <<self, inputs, targets, groups_or_edges, cross_group,
                   call_num_classes, given, pc, ret, raised, warned, loc, runs>>

\* lines 46-48: yield next(iterator), or enter the except clause
TryNext ==
    /\ gen # NoGen
    /\ gen.pc = "loop"
    /\ gen' = IF Exhausted(gen.iterable, gen.iterator)
              THEN [gen EXCEPT !.pc = "except"]
              ELSE [gen EXCEPT
                      !.iterator = Advanced(gen.iterable, gen.iterator),
                      !.out = Append(gen.out,
                                     NextOrNone(gen.iterable, gen.iterator)),
                      !.pc = "yielded"]
    /\ UNCHANGED <<self, inputs, targets, groups_or_edges, cross_group,
                   call_num_classes, given, pc, ret, raised, warned, loc, runs>>

\* lines 49-50: iterator = iter(iterable), then around the loop again
Restart ==
    /\ gen # NoGen
    /\ gen.pc = "except"
    /\ gen' = [gen EXCEPT !.iterator = Iter(gen.iterable, gen.iterator),
                          !.pc = "loop"]
    /\ UNCHANGED <<self, inputs, targets, groups_or_edges, cross_group,
                   call_num_classes, given, pc, ret, raised, warned, loc, runs>>

\* inf_generator(iterable): the generator object, its body not yet started;
\* no transform is called
InitInf ==
    /\ \E iterable \in Iterables :
         gen = [iterable |-> iterable, iterator |-> 0, first_value |-> "None",
                out |-> <<>>, raised |-> "none", pc |-> "created"]
    /\ self = [kind |-> "none"]
    /\ inputs = <<>>
    /\ targets = NoTargets
    /\ groups_or_edges = NoGroups
    /\ cross_group = TRUE
    /\ call_num_classes = 0
    /\ given = [inputs |-> <<>>, targets |-> NoTargets, groups_or_edges |-> NoGroups]
    /\ pc = "idle"
    /\ ret = NoReturn
    /\ raised = "none"
    /\ warned = FALSE
    /\ loc = NoLocals
    /\ runs = NoRuns

\* the steps the interpreter takes once the generator was resumed
Run ==
    \/ Begin
    \/ TryNext
    \/ Restart

NextInf ==
    \/ Request
    \/ Run

\* a resumed generator keeps running; the consumer may stop asking
SpecInf == InitInf /\ [][NextInf]_vars /\ WF_vars(Run)

\* ----------------------------------------------------------- specifications
AllKinds == {"none", "labels", "matrix"}

BothModes == {"linear", "geometric"}

\* every transform under its whole configuration, on small batches
Init ==
    \/ InitMixUp([ns |-> 1 .. SmallBatch, ps |-> 0 .. PDen, modes |-> BothModes,
                  samplers |-> {"Beta"}, ncs |-> {0, NumClasses},
                  inplaces |-> BOOLEAN, tkinds |-> AllKinds,
                  gkinds |-> {"none", "groups", "edges"}, cross |-> BOOLEAN,
                  callncs |-> {0, NumClasses}])
    \/ InitKit([ns |-> 1 .. SmallBatch, ps |-> 0 .. PDen, modes |-> BothModes,
                samplers |-> {"Beta"}, ncs |-> {0, NumClasses}, tkinds |-> AllKinds])
    \/ InitCutMix([ns |-> 1 .. SmallBatch, ps |-> 0 .. PDen,
                   ncs |-> {0, NumClasses}, inplaces |-> BOOLEAN,
                   tkinds |-> AllKinds, sides |-> 2 .. MaxSide])

Next ==
    \/ RandomMixUpCall
    \/ KitMixUpCall
    \/ RandomCutMixCall

Spec == Init /\ [][Next]_vars

\* the probability gate: every transform and every pairing mode, the draws
\* after the gate kept few (lambda always 1; constrained MixUp pairing under
\* one configuration; CutMix on a singular batch or with p = 0)
InitGate ==
    \/ InitMixUp([ns |-> 1 .. SmallBatch, ps |-> 0 .. PDen, modes |-> BothModes,
                  samplers |-> {"BernoulliOne"}, ncs |-> {0, NumClasses},
                  inplaces |-> BOOLEAN, tkinds |-> AllKinds,
                  gkinds |-> {"none"}, cross |-> {TRUE}, callncs |-> {0}])
    \/ InitMixUp([ns |-> 1 .. SmallBatch, ps |-> 0 .. PDen, modes |-> {"linear"},
                  samplers |-> {"BernoulliOne"}, ncs |-> {NumClasses},
                  inplaces |-> {FALSE}, tkinds |-> {"none", "labels"},
                  gkinds |-> {"groups", "edges"}, cross |-> BOOLEAN,
                  callncs |-> {0}])
    \/ InitKit([ns |-> 1 .. SmallBatch, ps |-> 0 .. PDen, modes |-> BothModes,
                samplers |-> {"BernoulliOne"}, ncs |-> {0, NumClasses},
                tkinds |-> AllKinds])
    \/ InitCutMix([ns |-> {1}, ps |-> 0 .. PDen, ncs |-> {0, NumClasses},
                   inplaces |-> BOOLEAN, tkinds |-> AllKinds,
                   sides |-> 2 .. MaxSide])
    \/ InitCutMix([ns |-> 2 .. SmallBatch, ps |-> {0}, ncs |-> {0, NumClasses},
                   inplaces |-> BOOLEAN, tkinds |-> AllKinds,
                   sides |-> 2 .. MaxSide])

SpecGate == InitGate /\ [][Next]_vars

\* pairing alone: no targets, a sampler that always returns lambda = 1
PairDomain ==
    [ns |-> 1 .. MaxBatch, ps |-> 0 .. PDen, modes |-> {"linear"},
     samplers |-> {"BernoulliOne"}, ncs |-> {0}, inplaces |-> {FALSE},
     tkinds |-> {"none"}, gkinds |-> {"none", "groups", "edges"},
     cross |-> BOOLEAN, callncs |-> {0}]

InitPair == InitMixUp(PairDomain) \/ InitKit(PairDomain)

NextPair ==
    \/ RandomMixUpCall
    \/ KitMixUpCall

SpecPair == InitPair /\ [][NextPair]_vars

\* the buffers: in place and out of place, every pairing mode, lambdas of 0
\* and 1 only for MixUp, 2 x 2 images for CutMix (label targets, with and
\* without a class count, on batches of two)
InitFrame ==
    \/ InitMixUp([ns |-> 1 .. SmallBatch, ps |-> 0 .. PDen, modes |-> BothModes,
                  samplers |-> {"Bernoulli"}, ncs |-> {0, NumClasses},
                  inplaces |-> BOOLEAN, tkinds |-> AllKinds,
                  gkinds |-> {"none"}, cross |-> {TRUE}, callncs |-> {0}])
    \/ InitMixUp([ns |-> 2 .. SmallBatch, ps |-> 1 .. PDen, modes |-> {"linear"},
                  samplers |-> {"Bernoulli"}, ncs |-> {NumClasses},
                  inplaces |-> BOOLEAN, tkinds |-> {"matrix"},
                  gkinds |-> {"groups", "edges"}, cross |-> BOOLEAN,
                  callncs |-> {0}])
    \/ InitCutMix([ns |-> 1 .. SmallBatch, ps |-> 0 .. PDen,
                   ncs |-> {NumClasses}, inplaces |-> BOOLEAN,
                   tkinds |-> {"none", "matrix"}, sides |-> {2}])
    \/ InitCutMix([ns |-> {2}, ps |-> 1 .. PDen, ncs |-> {0, NumClasses},
                   inplaces |-> BOOLEAN, tkinds |-> {"labels"}, sides |-> {2}])

NextFrame ==
    \/ RandomMixUpCall
    \/ RandomCutMixCall

SpecFrame == InitFrame /\ [][NextFrame]_vars

\* constrained pairing of a fully selected batch: the rows without partner
\* are dropped, the others resolve their relative indices
InitGather ==
    InitMixUp([ns |-> 2 .. MaxBatch, ps |-> {PDen}, modes |-> {"linear"},
               samplers |-> {"BernoulliOne"}, ncs |-> {0}, inplaces |-> {FALSE},
               tkinds |-> {"none"}, gkinds |-> {"groups", "edges"},
               cross |-> BOOLEAN, callncs |-> {0}])

NextGather == RandomMixUpCall

SpecGather == InitGather /\ [][NextGather]_vars

\* the rows a call writes: unconstrained MixUp with label and matrix targets,
\* in place and out of place; constrained MixUp within groups with label
\* targets and a gate that can leave rows out; CutMix on 2 x 2 images with
\* label targets. Lambdas of 0 and 1 for MixUp.
InitRows ==
    \/ InitMixUp([ns |-> 1 .. SmallBatch, ps |-> 0 .. PDen, modes |-> {"linear"},
                  samplers |-> {"Bernoulli"}, ncs |-> {NumClasses},
                  inplaces |-> BOOLEAN, tkinds |-> {"labels", "matrix"},
                  gkinds |-> {"none"}, cross |-> {TRUE}, callncs |-> {0}])
    \/ InitMixUp([ns |-> 2 .. MaxBatch, ps |-> {1}, modes |-> {"linear"},
                  samplers |-> {"Bernoulli"}, ncs |-> {NumClasses},
                  inplaces |-> {FALSE}, tkinds |-> {"labels"},
                  gkinds |-> {"groups"}, cross |-> {FALSE}, callncs |-> {0}])
    \/ InitCutMix([ns |-> 1 .. SmallBatch, ps |-> 0 .. PDen,
                   ncs |-> {NumClasses}, inplaces |-> {FALSE},
                   tkinds |-> {"labels"}, sides |-> {2}])

NextRows ==
    \/ RandomMixUpCall
    \/ RandomCutMixCall

SpecRows == InitRows /\ [][NextRows]_vars

\* ------------------------------------------------------------------ claims
Called == pc # "ready"

\* the call returned exactly what it was given and left the buffers alone
Identity ==
    /\ pc = "returned"
    /\ raised = "none"
    /\ ret.inputs = given.inputs
    /\ ret.targets = given.targets
    /\ inputs = given.inputs
    /\ targets = given.targets

N == BatchSize(given.inputs)

\* the rows of the final selection: row position k holds batch index
\* loc.indices[k], paired with loc.pair_indices[k]
Rows == DOMAIN loc.pair_indices

Unconstrained == self.kind \in {"mixup", "kit"} /\ groups_or_edges.kind = "none"

\* C1: in unconstrained MixUp pairing with batch size N > 1, for every selected
\* index i the map offset -> (i + offset) mod N is a bijection from 1..N-1 onto
\* the batch indices other than i, and every realized partner is a batch index
\* other than i.
C1_UnconstrainedPairNotSelf ==
    (Called /\ Unconstrained /\ N > 1) =>
        \A k \in Rows :
          LET i == loc.indices[k]
              image == { PairOffset(<<i>>, <<o>>, N)[1] : o \in 1 .. (N - 1) }
          IN  /\ loc.pair_indices[k] \in Range0(N)
              /\ loc.pair_indices[k] # i
              /\ image = Range0(N) \ {i}
              /\ Cardinality(image) = N - 1

C1_Witness ==
    /\ pc = "returned"
    /\ self.kind = "mixup"
    /\ Unconstrained
    /\ N = MaxBatch
    /\ Cardinality(Rows) = N
    /\ \E k \in Rows : loc.pair_indices[k] < loc.indices[k]

Predicate(i, j) ==
    IF given.groups_or_edges.kind = "edges" THEN given.groups_or_edges.val[i][j]
    ELSE IF cross_group
    THEN given.groups_or_edges.val[i] # given.groups_or_edges.val[j]
    ELSE given.groups_or_edges.val[i] = given.groups_or_edges.val[j]

Constrained == self.kind = "mixup" /\ groups_or_edges.kind # "none"

\* C2: under group- or connectivity-constrained pairing every realized pair
\* (i, pair(i)) satisfies the active predicate: different group labels in
\* cross-group mode, equal group labels in within-group mode, a true entry
\* [i][pair(i)] of the caller's matrix with an explicit matrix.
C2_PairsSatisfyPredicate ==
    (Called /\ Constrained) =>
        \A k \in Rows :
          /\ loc.pair_indices[k] \in Range0(N)
          /\ Predicate(loc.indices[k], loc.pair_indices[k])

\* a proper subset of the batch was selected, two rows were kept, and the
\* second row's partner is not a candidate of the first row
C2_Witness ==
    /\ pc = "returned"
    /\ Constrained
    /\ self.p < PDen
    /\ Cardinality(Rows) = 2
    /\ N = MaxBatch
    /\ ~Predicate(loc.indices[0], loc.pair_indices[1])

WithinOrExplicit ==
    Constrained /\ (groups_or_edges.kind = "edges" \/ ~cross_group)

\* C3: under within-group pairing and under explicit-matrix pairing no selected
\* sample is paired with itself, also when the selection is a proper subset of
\* the batch and when the matrix has true self-loops, and the self-loop masking
\* removes no eligible non-self partner from a row's candidates.
C3_NoSelfPairNoLostPartner ==
    (Called /\ WithinOrExplicit) =>
        \A k \in Rows :
          /\ loc.pair_indices[k] # loc.indices[k]
          /\ \A j \in Range0(N) :
               (j # loc.indices[k] /\ Predicate(loc.indices[k], j))
                 => loc.connections[k][j]

\* 1.0 of the float tensors of the call
UnitOfCall ==
    IF self.kind = "cutmix"
    THEN Unit("cutmix", Height(given.inputs), Width(given.inputs))
    ELSE Unit(self.kind, 1, 1)

\* the targets handed in, one-hot encoded when they are labels
EncodedGiven ==
    IF given.targets.kind = "labels"
    THEN OneHot(given.targets.val, NumClasses, UnitOfCall)
    ELSE given.targets.val

RowSum(row) == SumTo(row, Cardinality(DOMAIN row))

\* C4: after target mixing every row of the returned target matrix sums to 1,
\* in RandomMixUp and in RandomCutMix, for integer-encoded targets and for
\* matrices whose rows sum to 1.
C4_TargetRowsSumToOne ==
    (pc = "returned" /\ given.targets.kind # "none" /\ loc.target_lambdas # <<>>) =>
        \A i \in Range0(N) : RowSum(ret.targets.val[i]) = UnitOfCall

\* C5: a batch of exactly one sample is returned unchanged for every p, without
\* an error, by RandomMixUp (ranzen and kit) and by RandomCutMix.
C5_SingularBatchIdentity == (Called /\ N = 1) => Identity

\* C6: with p = 0 the call returns the inputs and targets it was given, draws
\* nothing (no selection, pairing or coefficient sampling) and neither encodes
\* nor alters the targets, for every batch and pairing mode.
C6_ZeroProbabilityIdentity ==
    (Called /\ self.p = 0) => (Identity /\ loc = NoLocals)

C6_Witness ==
    /\ pc = "returned"
    /\ self.p = 0
    /\ self.kind = "mixup"
    /\ N > 1
    /\ given.targets.kind = "labels"
    /\ groups_or_edges.kind = "edges"

CutMix == self.kind = "cutmix"

\* C7: in RandomCutMix with batch size > 1 every selected index i is assigned a
\* partner pair(i) # i, also when exactly one index is selected.
C7_CutMixPairNotSelf ==
    (Called /\ CutMix /\ N > 1) =>
        \A k \in Rows : loc.pair_indices[k] # loc.indices[k]

\* the call gets as far as mixing the inputs: something may be drawn and the
\* targets, if label-encoded, come with a class count
Mixes ==
    /\ ~NothingToDo(N, self.p)
    /\ ~(given.targets.kind = "labels" /\ self.num_classes = 0)

\* C8: in RandomCutMix, for every height and width, an output pixel (ch, r, c)
\* of a selected sample equals the partner's pixel there exactly when
\* start_h <= r <= end_h and start_w <= c <= end_w, and the sample's own pixel
\* otherwise, the same for every channel.
C8_HardReplacementInBox ==
    (Called /\ CutMix /\ Mixes) =>
        /\ pc = "returned"
        /\ \A k \in Rows :
             LET i == loc.indices[k]
                 j == loc.pair_indices[k]
                 b == loc.box
             IN  \A ch \in Range0(NumChannels), r \in Range0(Height(given.inputs)),
                    c \in Range0(Width(given.inputs)) :
                   ret.inputs[i][ch][r][c] =
                     IF /\ b.start_inds_h[k] <= r /\ r <= b.end_inds_h[k]
                        /\ b.start_inds_w[k] <= c /\ c <= b.end_inds_w[k]
                     THEN given.inputs[j][ch][r][c]
                     ELSE given.inputs[i][ch][r][c]

\* C9: in RandomCutMix, for every sampled lambda in [0, 1], the box start lies
\* in [0, H - extent_h] and [0, W - extent_w], so that 0 <= start_h,
\* end_h = start_h + extent_h <= H, 0 <= start_w and
\* end_w = start_w + extent_w <= W.
C9_BoxInsideImage ==
    (Called /\ CutMix) =>
        \A k \in DOMAIN loc.lambdas :
          LET b == loc.box
              h == Height(given.inputs)
              w == Width(given.inputs)
          IN  /\ 0 <= b.start_inds_h[k]
              /\ b.start_inds_h[k] <= h - b.extents_h[k]
              /\ b.end_inds_h[k] = b.start_inds_h[k] + b.extents_h[k]
              /\ b.end_inds_h[k] <= h
              /\ 0 <= b.start_inds_w[k]
              /\ b.start_inds_w[k] <= w - b.extents_w[k]
              /\ b.end_inds_w[k] = b.start_inds_w[k] + b.extents_w[k]
              /\ b.end_inds_w[k] <= w

\* C10: in RandomCutMix the weight of every selected pair is
\* effective_lambda = 1 - (end_h - start_h) * (end_w - start_w) / (H * W), and
\* the mixed target of selected row i is
\* effective_lambda_i * target_i + (1 - effective_lambda_i) * target_pair(i).
C10_TargetsMixedByBoxArea ==
    (pc = "returned" /\ CutMix /\ given.targets.kind # "none") =>
        \A k \in Rows :
          LET i == loc.indices[k]
              j == loc.pair_indices[k]
              b == loc.box
              area == Height(given.inputs) * Width(given.inputs)
              effective == area - (b.end_inds_h[k] - b.start_inds_h[k])
                                    * (b.end_inds_w[k] - b.start_inds_w[k])
          IN  /\ loc.target_lambdas[k] = effective
              /\ \A c \in Range0(NumClasses) :
                   area * ret.targets.val[i][c] =
                     effective * EncodedGiven[i][c]
                       + (area - effective) * EncodedGiven[j][c]

\* ---------------------------------------------------- zero-degree rows
\* the indices the probability gate selected / the indices that were mixed
SelectionSet == { loc.selected[k] : k \in DOMAIN loc.selected }

FinalSelectionSet == { loc.indices[k] : k \in DOMAIN loc.indices }

\* sample i has no eligible partner: no other sample the predicate admits
Isolated(i) == ~ \E j \in Range0(N) : j # i /\ Predicate(i, j)

\* row i of the returned batch is row i of the batch handed in (for the
\* targets: the row handed in, one-hot encoded when the call encoded them)
Untouched(i) ==
    /\ ret.inputs[i] = given.inputs[i]
    /\ \/ given.targets.kind = "none" /\ ret.targets = NoTargets
       \/ /\ given.targets.kind # "none"
          /\ ret.targets.kind = given.targets.kind
          /\ ret.targets.val[i] = given.targets.val[i]
       \/ /\ given.targets.kind = "labels"
          /\ ret.targets.kind = "matrix"
          /\ ret.targets.val[i] = EncodedGiven[i]

\* C11: under constrained MixUp pairing, whenever selected rows have no eligible
\* partner a warning is emitted, exactly those rows are returned unchanged,
\* every other selected row is mixed with a partner the predicate admits, and
\* when every selected row is without partner the call returns what it was given.
C11_LenientZeroDegree ==
    (pc = "returned" /\ Constrained /\ ~NothingToDo(N, self.p)) =>
        LET isolated == { i \in SelectionSet : Isolated(i) }
        IN  /\ isolated # {} => warned
            /\ \A i \in isolated : i \notin FinalSelectionSet /\ Untouched(i)
            /\ \A i \in SelectionSet \ isolated :
                 \E k \in Rows : /\ loc.indices[k] = i
                                 /\ Predicate(i, loc.pair_indices[k])
            /\ SelectionSet \subseteq isolated => Identity

\* what the transform does with selected rows of degree 0. Lines 357-368 warn
\* and drop the rows whatever the object holds: neither __init__ (56-66) nor
\* __call__ (462-470) takes an argument that selects another treatment.
ZeroDegreePolicy(obj) == "lenient"

\* the RandomMixUp objects __init__ can build
Transforms ==
    [kind : {"mixup"}, p : 0 .. PDen, mode : BothModes,
     num_classes : {0, NumClasses}, featurewise : BOOLEAN, inplace : BOOLEAN,
     lambda_sampler : {"Beta", "Bernoulli", "BernoulliOne"}]

\* C12: the zero-degree policy of constrained pairing is selectable by
\* configuration, and under the strict policy a call in which a selected row has
\* no eligible partner fails with a pairing error and leaves the caller's inputs
\* and targets unmodified.
C12_StrictPolicySelectable ==
    (Called /\ Constrained /\ \E i \in SelectionSet : Isolated(i)) =>
        /\ \E obj \in Transforms : ZeroDegreePolicy(obj) = "strict"
        /\ ZeroDegreePolicy(self) = "strict" =>
             /\ pc = "raised"
             /\ inputs = given.inputs
             /\ targets = given.targets

\* the call ended with the error for label-encoded targets without a class
\* count (in RandomCutMix a batch with height # width fails earlier, on the
\* mask)
LabelsWithoutClassCount ==
    /\ pc = "raised"
    /\ self.kind \in {"mixup", "cutmix"}
    /\ given.targets.kind = "labels"
    /\ self.num_classes = 0
    /\ CutMix => Height(given.inputs) = Width(given.inputs)

\* C13: when label-encoded targets come without a class count, the error is
\* raised before any random draw and before any modification of the batch: as
\* it propagates the caller's inputs (also with inplace=True) and the
\* generator's state are as they were before the call.
C13_ConfigErrorBeforeDraws ==
    LabelsWithoutClassCount => (loc.draws = 0 /\ inputs = given.inputs)

\* C14: a RandomMixUp call with label-encoded targets and a num_classes
\* argument one-hot encodes the targets with that class count and raises no
\* RuntimeError, also when no class count was given at construction.
C14_CallTimeClassCount ==
    (Called /\ self.kind = "mixup" /\ given.targets.kind = "labels"
       /\ call_num_classes >= 1 /\ ~NothingToDo(N, self.p)
       /\ (warned => FinalSelectionSet # {})) =>
        /\ raised # "RuntimeError"
        /\ pc = "returned"
        /\ ret.targets.kind = "matrix"
        /\ \A i \in Range0(N) :
             DOMAIN ret.targets.val[i] = Range0(call_num_classes)

\* C15: with inplace=False, after any call of RandomMixUp or RandomCutMix, in
\* every pairing mode and also when the call raised, the caller's inputs,
\* targets and groups_or_edges hold the values they held before the call.
C15_OutOfPlaceLeavesBuffers ==
    (Called /\ self.kind \in {"mixup", "cutmix"} /\ ~self.inplace) =>
        /\ inputs = given.inputs
        /\ targets = given.targets
        /\ groups_or_edges = given.groups_or_edges

\* an out-of-place call under an explicit matrix that returned mixed inputs and
\* mixed targets and masked a true entry of the matrix in its own copy
C15_Witness ==
    /\ pc = "returned"
    /\ ~self.inplace
    /\ given.targets.kind = "matrix"
    /\ given.groups_or_edges.kind = "edges"
    /\ ret.inputs # given.inputs
    /\ ret.targets.val # given.targets.val
    /\ \E k \in Rows : /\ given.groups_or_edges.val[loc.indices[k]][k]
                       /\ ~loc.connections[k][k]

\* the calls both runs have made so far
Replayed ==
    IF runs = NoRuns THEN {}
    ELSE 1 .. Min(Len(runs[1].history), Len(runs[2].history))

\* C16: two runs with generators seeded alike that replay the same calls on
\* the same batch draw the same selection set, the same pair map and the same
\* lambdas, whatever the state of the process-wide default generator.
C16_SeedFixesEveryDraw ==
    \A c \in Replayed : runs[1].history[c] = runs[2].history[c]

\* C16 as amended: the selection set and the pair map are the same in both
\* runs whatever the default generator's state; the lambdas are the same when
\* the default generator starts both runs in the same state.
C16_SeedFixesSelectionAndPairs ==
    \A c \in Replayed :
      /\ runs[1].history[c].selected = runs[2].history[c].selected
      /\ runs[1].history[c].pair_indices = runs[2].history[c].pair_indices
      /\ runs[1].default_seed = runs[2].default_seed =>
           runs[1].history[c].lambdas = runs[2].history[c].lambdas

\* both runs replayed every call, the gate selected a proper part of the batch
\* in one call and another part in the next, and the lambdas of the runs differ
C16_Witness ==
    /\ runs # NoRuns
    /\ Len(runs[1].history) = MaxCalls
    /\ Len(runs[2].history) = MaxCalls
    /\ self.kind = "mixup"
    /\ runs[1].history[1].selected # runs[1].history[2].selected
    /\ runs[1].history[1].selected # <<>>
    /\ Cardinality(DOMAIN runs[1].history[1].selected) < N
    /\ runs[1].history[1].lambdas # runs[2].history[1].lambdas
    /\ runs[1].history[2].pair_indices # runs[1].history[1].pair_indices

\* the columns of the true entries of one row, in ascending order
Candidates(row) == Nonzero({ j \in DOMAIN row : row[j] })

\* the relative indices the retained rows can be given: one in 0 .. d_k - 1
\* for every row k
RelativeIndices(connections) ==
    { rel \in [DOMAIN connections -> Range0(N)] :
        \A k \in DOMAIN connections : rel[k] < Degrees(connections)[k] }

\* C17: in constrained pairing, for every set of retained rows (degrees >= 1)
\* and every relative index r_k in 0 .. d_k - 1, adding the cumulative degree of
\* the preceding rows and gathering from the row-major list of true entries
\* yields for row k the column of the r_k-th true entry of row k itself; a row
\* of degree 1 resolves to its only candidate.
C17_GatherResolvesOwnRow ==
    (Called /\ Constrained /\ loc.connections # <<>>) =>
        \A rel \in RelativeIndices(loc.connections) :
          \A k \in DOMAIN loc.connections :
            LET candidates == Candidates(loc.connections[k])
                resolved == PairFromRel(rel, loc.connections)[k]
            IN  /\ resolved = candidates[rel[k]]
                /\ loc.connections[k][resolved]
                /\ Cardinality(DOMAIN candidates) = 1 => resolved = candidates[0]

\* three retained rows of degrees 2, 1 and 2, the last two resolved past the
\* entries of the rows before them
C17_Witness ==
    /\ pc = "returned"
    /\ Constrained
    /\ Cardinality(Rows) = 3
    /\ Degrees(loc.connections) = [k \in Range0(3) |-> IF k = 1 THEN 1 ELSE 2]
    /\ loc.pair_indices[1] = Candidates(loc.connections[1])[0]
    /\ loc.pair_indices[2] = Candidates(loc.connections[2])[1]
    /\ loc.pair_indices[2] \notin { loc.pair_indices[0], loc.pair_indices[1] }

\* row k of the selection was mixed, in the returned inputs, from the rows
\* i and pair(i) of the inputs handed in
InputsFromGiven(k) ==
    LET i == loc.indices[k]
        j == loc.pair_indices[k]
    IN  IF CutMix
        THEN \A ch \in Range0(NumChannels), r \in Range0(Height(given.inputs)),
                c \in Range0(Width(given.inputs)) :
               ret.inputs[i][ch][r][c] =
                 IF loc.masks[k][r][c] THEN given.inputs[j][ch][r][c]
                 ELSE given.inputs[i][ch][r][c]
        ELSE ret.inputs[i] = Mix(self.mode, given.inputs[i], given.inputs[j],
                                 loc.lambdas[k], LambdaDen, UnitOfCall)

\* row k of the selection was mixed, in the returned targets, from the rows
\* i and pair(i) of the targets handed in
TargetsFromGiven(k) ==
    LET i == loc.indices[k]
        j == loc.pair_indices[k]
        area == Height(given.inputs) * Width(given.inputs)
    IN  \A c \in Range0(NumClasses) :
          IF CutMix
          THEN area * ret.targets.val[i][c] =
                 loc.target_lambdas[k] * EncodedGiven[i][c]
                   + (area - loc.target_lambdas[k]) * EncodedGiven[j][c]
          ELSE ret.targets.val[i][c] =
                 Mix(self.mode, EncodedGiven[i][c], EncodedGiven[j][c],
                     loc.target_lambdas[k], LambdaDen, UnitOfCall)

\* C18: every mixed row is computed from the pre-call values of the batch: the
\* returned input row and target row of a selected index i are a function of
\* the original rows i and pair(i) only, also when pair(i) is itself selected
\* and transformed in the same call, in RandomMixUp and in RandomCutMix.
C18_MixedFromPreCallValues ==
    pc = "returned" =>
        \A k \in Rows :
          /\ InputsFromGiven(k)
          /\ given.targets.kind # "none" => TargetsFromGiven(k)

\* the pixel positions, per channel, that the mask of selected row k replaces
Replaced(k) ==
    { rc \in Range0(Height(given.inputs)) \X Range0(Width(given.inputs)) :
        loc.masks[k][rc[1]][rc[2]] }

BoxArea(k) ==
    (loc.box.end_inds_h[k] - loc.box.start_inds_h[k])
      * (loc.box.end_inds_w[k] - loc.box.start_inds_w[k])

\* C19: in RandomCutMix, for every selected pair, the number of pixel positions
\* per channel that the mask replaces equals
\* box_area = (end_h - start_h) * (end_w - start_w), so that the label weight
\* equals the fraction of the sample's own pixels that survive.
C19_MaskAreaIsBoxArea ==
    (pc = "returned" /\ CutMix) =>
        \A k \in Rows :
          /\ Cardinality(Replaced(k)) = BoxArea(k)
          /\ given.targets.kind # "none" =>
               loc.target_lambdas[k] =
                 Height(given.inputs) * Width(given.inputs) - Cardinality(Replaced(k))

\* the call has the same number of rows as the batch handed in and every row
\* outside the final selection keeps its value
RowsOutsideSelectionKept ==
    /\ DOMAIN ret.inputs = DOMAIN given.inputs
    /\ ret.targets.kind # "none" => DOMAIN ret.targets.val = DOMAIN given.inputs
    /\ \A i \in Range0(N) \ FinalSelectionSet : Untouched(i)

\* C20: every call of RandomMixUp or RandomCutMix returns a batch with as many
\* rows as it was given; every row whose index is not in the final selection
\* (not drawn by the gate, or dropped for having no eligible partner) is
\* returned with exactly its input value (for the targets: its given row, or
\* the one-hot encoding of its label); when the gate selects no index the
\* whole output equals the input.
C20_UnselectedRowsUntouched ==
    pc = "returned" =>
        /\ RowsOutsideSelectionKept
        /\ SelectionSet = {} =>
             /\ ret.inputs = given.inputs
             /\ ret.targets = given.targets

\* C20 (amended): as above, but when the gate selects no index the inputs
\* are returned unchanged and the targets are returned unchanged unless they
\* are labels, which come back unchanged only from the early returns (p = 0,
\* a singular batch, constrained pairing left without a row) and one-hot
\* encoded otherwise.
C20_UnselectedRowsKeepValue ==
    pc = "returned" =>
        /\ RowsOutsideSelectionKept
        /\ SelectionSet = {} =>
             /\ ret.inputs = given.inputs
             /\ given.targets.kind # "labels" => ret.targets = given.targets
             /\ given.targets.kind = "labels" =>
                  ret.targets = IF \/ NothingToDo(N, self.p)
                                   \/ groups_or_edges.kind # "none"
                                THEN given.targets
                                ELSE [kind |-> "matrix", val |-> EncodedGiven]

\* a batch of three with labels: one row not drawn, one drawn and dropped for
\* want of a partner, one mixed into a different value
C20_Witness ==
    /\ pc = "returned"
    /\ self.kind = "mixup"
    /\ N > 2
    /\ given.targets.kind = "labels"
    /\ ret.targets.kind = "matrix"
    /\ \E i \in Range0(N) : i \notin SelectionSet
    /\ \E i \in SelectionSet : i \notin FinalSelectionSet
    /\ \E i \in FinalSelectionSet :
         /\ ret.inputs[i] # given.inputs[i]
         /\ ret.targets.val[i] # EncodedGiven[i]

\* --------------------------------------------------------- inf_generator
NonEmpty == Len(gen.iterable.items) > 0

\* the n-th value yielded (n = 0, 1, ...) is element n mod k of the iterable
YieldsInTurn ==
    \A n \in Range0(Len(gen.out)) :
        gen.out[n + 1] =
            gen.iterable.items[(n % Len(gen.iterable.items)) + 1]

\* the generator was resumed and has not yet yielded
Resumed == gen.pc \in {"start", "loop", "except"}

\* C21: for every non-empty iterable of k elements inf_generator never
\* terminates and every request for the next value eventually yields one: the
\* n-th yielded value is element n mod k of the iterable, which is restarted
\* each time it is exhausted; RuntimeError is raised only when the iterable
\* is empty.
C21_CyclesForever ==
    /\ [](NonEmpty => (gen.pc # "raised" /\ YieldsInTurn))
    /\ [](gen.raised = "RuntimeError" => ~NonEmpty)
    /\ (NonEmpty /\ Resumed) ~> (gen.pc = "yielded")

=============================================================================
